---- MODULE Spec2Model ----
(***************************************************************************)
(* A model of discoeb/util.py: root_find_bisect, softclip, savgol_filter   *)
(* and lngamma_complex_e.                                                  *)
(*                                                                         *)
(* The four routines share no state.  Each has its own variables, its own  *)
(* initial condition (the arguments of one call) and its own actions; the  *)
(* variable `routine` says which routine the modelled call is to.          *)
(*                                                                         *)
(* Real numbers are modelled exactly on dyadic grids (integers scaled by a *)
(* power of two), so the bisection midpoints are exact; the logarithm of   *)
(* softclip is computed digit by digit in fixed point.                     *)
(***************************************************************************)
EXTENDS Integers, Sequences, FiniteSets, TLC

VARIABLES
  routine,      \* which routine is being called
  pc,           \* "call" | "loop" (in root_find_bisect) | "done"
  \* ---- root_find_bisect ----
  func,         \* which objective the caller passed: "any" or "quadratic"
  fvals,        \* the values of func(., param) fixed so far (func is pure)
  xleft,        \* current left bound, in units of 1/Unit
  xright,       \* current right bound, in units of 1/Unit
  numit,        \* the number of iterations asked for
  param,        \* the caller's opaque parameter
  it,           \* loop counter, the `i` of `for i in range(numit)`
  ret,          \* the returned value (None before the return)
  calls,        \* history: the calls of func made so far, <<x, param>> each
  brackets,     \* history: the bracket at the start and after each iteration
  \* ---- softclip ----
  x,            \* the input array (fixed point, FracBits fractional bits)
  a_min,
  a_max,
  clipped,      \* the returned array (None before the call)
  \* ---- savgol_filter ----
  y_len,        \* y.shape[0]
  window_length,
  polyorder,
  outcome,      \* what the call did (None before the call)
  \* ---- lngamma_complex_e ----
  z,            \* the argument, [re, im] in units of 1/4
  lngamma       \* the result (None before the call)

bvars == <<func, fvals, xleft, xright, numit, param, it, ret, calls, brackets>>
svars == <<x, a_min, a_max, clipped>>
gvars == <<y_len, window_length, polyorder, outcome>>
lvars == <<z, lngamma>>
vars  == <<routine, pc, bvars, svars, gvars, lvars>>

None == "None"

Abs(v) == IF v < 0 THEN -v ELSE v

Sign(v) == IF v > 0 THEN 1 ELSE IF v < 0 THEN -1 ELSE 0

RECURSIVE Pow2(_)
Pow2(k) == IF k <= 0 THEN 1 ELSE 2 * Pow2(k - 1)

(***************************************************************************)
(* Bounds of the model.                                                    *)
(***************************************************************************)
MaxNumit == 4   \* numit ranges over 0..MaxNumit
MaxX == 2       \* the initial bounds range over -MaxX..MaxX

(***************************************************************************)
(*                           root_find_bisect                              *)
(***************************************************************************)

\* One real unit.  Bounds are multiples of 1/Unit; the initial bounds are
\* integers, so after MaxNumit halvings the final midpoint is still exact.
Unit == Pow2(MaxNumit + 1)

\* The values an arbitrary objective may take (only products and their signs
\* are used by the routine).
FuncValues == {-1, 0, 1}

Params == {2, 3}

\* The objective of the spec's convergence test, func(x, p) = x^2 - p,
\* scaled by Unit^2.
quadratic(xv, p) == xv * xv - p * Unit * Unit

\* The values func(xv, param) can have, given what is already fixed of func.
FuncAt(xv) ==
  IF xv \in DOMAIN fvals THEN {fvals[xv]}
  ELSE IF func = "quadratic" THEN {quadratic(xv, param)}
  ELSE FuncValues

\* xmid = 0.5 * (xleft + xright)
Midpoint(xl, xr) == (xl + xr) \div 2

\* for i in range(numit)
LoopDone_offbyone(i, n) == i + 1 >= n
LoopDone(i, n) == i >= n

\* The two evaluations of one iteration: func(xmid, param), func(xleft, param).
FuncCalls(xm, xl, p) == << <<xm, p>>, <<xl, p>> >>

\* jax.lax.cond(func(xmid)*func(xleft) > 0, (xmid, xright), (xleft, xmid))
NextBracket_negated(xl, xr, xm, fm, fl) == IF fm * fl < 0 THEN <<xm, xr>> ELSE <<xl, xm>>
NextBracket_noshrink(xl, xr, xm, fm, fl) == IF fm * fl > 0 THEN <<xm, xr>> ELSE <<xl, xr>>
NextBracket_swapped(xl, xr, xm, fm, fl) == IF fm * fl > 0 THEN <<xr, xm>> ELSE <<xl, xm>>
NextBracket(xl, xr, xm, fm, fl) == IF fm * fl > 0 THEN <<xm, xr>> ELSE <<xl, xm>>

InitBisect ==
  /\ func \in {"any", "quadratic"}
  /\ param \in Params
  /\ xleft \in {k * Unit : k \in (-MaxX)..MaxX}
  /\ xright \in {k * Unit : k \in (-MaxX)..MaxX}
  /\ numit \in 0..MaxNumit
  /\ fvals \in IF func = "quadratic"
                 THEN {[p \in {xleft, xright} |-> quadratic(p, param)]}
                 ELSE [{xleft, xright} -> FuncValues]
  /\ it = 0
  /\ ret = None
  /\ calls = << >>
  /\ brackets = << <<xleft, xright>> >>

IdleBisect ==
  /\ func = None /\ fvals = << >> /\ xleft = 0 /\ xright = 0 /\ numit = 0
  /\ param = None /\ it = 0 /\ ret = None
  /\ calls = << >> /\ brackets = << >>

\* One pass through the body of the loop.
BisectIteration ==
  /\ routine = "root_find_bisect"
  /\ pc = "loop"
  /\ ~LoopDone(it, numit)
  /\ LET xmid == Midpoint(xleft, xright) IN
     \E fm \in FuncAt(xmid) :
       LET fl == fvals[xleft]
           nb == NextBracket(xleft, xright, xmid, fm, fl)
       IN /\ fvals' = [p \in DOMAIN fvals \cup {xmid} |->
                         IF p = xmid THEN fm ELSE fvals[p]]
          /\ calls' = calls \o FuncCalls(xmid, xleft, param)
          /\ xleft' = nb[1]
          /\ xright' = nb[2]
          /\ brackets' = Append(brackets, nb)
  /\ it' = it + 1
  /\ UNCHANGED <<func, numit, param, ret>>
  /\ UNCHANGED <<routine, pc, svars, gvars, lvars>>

\* return 0.5 * (xleft + xright)
BisectReturn ==
  /\ routine = "root_find_bisect"
  /\ pc = "loop"
  /\ LoopDone(it, numit)
  /\ ret' = Midpoint(xleft, xright)
  /\ pc' = "done"
  /\ UNCHANGED <<func, fvals, xleft, xright, numit, param, it, calls, brackets>>
  /\ UNCHANGED <<routine, svars, gvars, lvars>>

NextBisect == BisectIteration \/ BisectReturn

(***************************************************************************)
(*                               softclip                                  *)
(***************************************************************************)
FracBits == 12   \* fractional bits of the fixed-point reals of softclip
MaxSoftX == 16   \* the elements of x range over -MaxSoftX/2 .. MaxSoftX/2
MaxA == 1        \* a_min and a_max range over -MaxA..MaxA

\* 1.0 in fixed point.
One == Pow2(FracBits)

\* ln 2 in fixed point (45426 / 2^16 = 0.693145...).
Ln2 == (45426 * One) \div 65536

\* The integer part of log2(m / One), for m >= One.
RECURSIVE IntLog2(_)
IntLog2(m) == IF m < 2 * One THEN 0 ELSE 1 + IntLog2(m \div 2)

\* m / One brought into [1, 2) by halving.
RECURSIVE Mantissa(_)
Mantissa(m) == IF m < 2 * One THEN m ELSE Mantissa(m \div 2)

\* The first n fractional bits of log2(m / One), for m / One in [1, 2):
\* square, and emit a 1 (and halve) when the square reaches 2.
RECURSIVE FracLog2(_, _)
FracLog2(m, n) ==
  IF n = 0 THEN 0
  ELSE LET sq == (m * m) \div One IN
       IF sq >= 2 * One THEN Pow2(n - 1) + FracLog2(sq \div 2, n - 1)
       ELSE FracLog2(sq, n - 1)

\* jnp.log on fixed-point arguments >= 1.0.
log(m) == ((IntLog2(m) * One + FracLog2(Mantissa(m), FracBits)) * Ln2) \div One

\* jnp.clip(x, a_min, a_max) = minimum(maximum(x, a_min), a_max)
clip(xv, lo, hi) ==
  LET m == IF xv < lo THEN lo ELSE xv IN IF m > hi THEN hi ELSE m

\* softclip on one element.
softclip_hard(xv, lo, hi) == clip(xv, lo, hi)
softclip_unsigned(xv, lo, hi) ==
  LET y == clip(xv, lo, hi) IN
  IF xv < lo THEN lo + log(Abs(xv - lo) + One)
  ELSE IF xv > hi THEN hi + log(Abs(xv - hi) + One)
  ELSE y
softclip(xv, lo, hi) ==
  LET y == clip(xv, lo, hi) IN
  IF xv < lo THEN lo + log(Abs(xv - lo) + One) * Sign(xv - lo)
  ELSE IF xv > hi THEN hi + log(Abs(xv - hi) + One) * Sign(xv - hi)
  ELSE y

SoftXs == {(k * One) \div 2 : k \in (-MaxSoftX)..MaxSoftX}

InitSoftclip ==
  /\ x \in [1..2 -> SoftXs]
  /\ a_min \in {k * One : k \in (-MaxA)..MaxA}
  /\ a_max \in {k * One : k \in (-MaxA)..MaxA}
  /\ clipped = None

IdleSoftclip == x = << >> /\ a_min = 0 /\ a_max = 0 /\ clipped = None

\* The call softclip(x, a_min, a_max), elementwise on the array x.
Softclip ==
  /\ routine = "softclip"
  /\ pc = "call"
  /\ pc' = "done"
  /\ clipped' = [j \in DOMAIN x |-> softclip(x[j], a_min, a_max)]
  /\ UNCHANGED <<x, a_min, a_max>>
  /\ UNCHANGED <<routine, bvars, gvars, lvars>>

NextSoftclip == Softclip

(***************************************************************************)
(*                             savgol_filter                               *)
(***************************************************************************)
MaxLen == 7      \* y.shape[0] ranges over 0..MaxLen
MaxWindow == 7   \* window_length ranges over 0..MaxWindow
MaxPoly == 6     \* polyorder ranges over -1..MaxPoly

\* The shape of an array, or the failure of the operation that was to make it.
Shape(dims) == [ok |-> TRUE, dims |-> dims]

ShapeError == [ok |-> FALSE, dims |-> << >>]

\* The shape of jnp.dot(a, b) for arrays of shapes s and t (1-D or 2-D).
dot(s, t) ==
  IF ~s.ok \/ ~t.ok THEN ShapeError
  ELSE LET d == s.dims
           e == t.dims
       IN IF Len(d) = 2 /\ Len(e) = 2
            THEN IF d[2] = e[1] THEN Shape(<<d[1], e[2]>>) ELSE ShapeError
          ELSE IF Len(d) = 2 /\ Len(e) = 1
            THEN IF d[2] = e[1] THEN Shape(<<d[1]>>) ELSE ShapeError
          ELSE IF Len(d) = 1 /\ Len(e) = 2
            THEN IF d[1] = e[1] THEN Shape(<<e[2]>>) ELSE ShapeError
          ELSE IF Len(d) = 1 /\ Len(e) = 1
            THEN IF d[1] = e[1] THEN Shape(<< >>) ELSE ShapeError
          ELSE ShapeError

\* The shape of jnp.linalg.solve(a, b) for a of shape s, b of shape t.
solve(s, t) ==
  IF ~s.ok \/ ~t.ok THEN ShapeError
  ELSE IF Len(s.dims) = 2 /\ s.dims[1] = s.dims[2]
          /\ Len(t.dims) >= 1 /\ t.dims[1] = s.dims[1] THEN t
  ELSE ShapeError

\* The ways a call ends.  y_smoothed is the returned array (see smoothed).
Passed == [kind |-> "passed", what |-> "", y_smoothed |-> << >>]

ValueError(msg) == [kind |-> "ValueError", what |-> msg, y_smoothed |-> << >>]

TypeError(expr) == [kind |-> "TypeError", what |-> expr, y_smoothed |-> << >>]

Returned(arr) == [kind |-> "returned", what |-> "", y_smoothed |-> arr]

\* The five checks, in the order of the code; Passed when none raises.
validate(n, wl, po) ==
  IF wl % 2 = 0 THEN ValueError("window_length must be odd")
  ELSE IF wl < po + 2
    THEN ValueError("window_length is too small for the polynomials order")
  ELSE IF wl > n THEN ValueError("window_length is too large for input array")
  ELSE IF po > wl THEN ValueError("polyorder is too large for the window length")
  ELSE IF po < 1 THEN ValueError("polyorder must be non-negative")
  ELSE Passed

\* b = jnp.array([(-1)**i for i in range(polyorder+1)])
shape_b(po) == Shape(<<po + 1>>)

\* A = jnp.vander(jnp.linspace(-1, 1, window_length), polyorder+1)
shape_A(wl, po) == Shape(<<wl, po + 1>>)

\* jnp.transpose of a 2-D array.
transpose(s) == Shape(<<s.dims[2], s.dims[1]>>)

\* ATb = jnp.dot(AT, b)
shape_ATb(wl, po) == dot(transpose(shape_A(wl, po)), shape_b(po))

\* c = jnp.linalg.solve(ATA, ATb), with ATA = jnp.dot(AT, A)
shape_c(wl, po) ==
  solve(dot(transpose(shape_A(wl, po)), shape_A(wl, po)), shape_ATb(wl, po))

\* The shape of the slice y[first:last] of an array of length n
\* (0 <= first, last).
slice(n, first, last) ==
  LET hi == IF last < n THEN last ELSE n
      lo == IF first < n THEN first ELSE n
  IN Shape(<<IF hi > lo THEN hi - lo ELSE 0>>)

\* y_smoothed after the loop: entry i (1-based) is "zero", the fill value, or
\* "dot(c, y[a:b])" for the window it was set from; windows[i] = <<a, b>> are
\* the 0-based slice bounds of that window (<<0, 0>> for a fill value).
smoothed(n, wl) ==
  LET h == wl \div 2 IN
  [fill |-> [i \in 1..n |-> ~(h < i /\ i <= n - h)],
   windows |-> [i \in 1..n |-> IF h < i /\ i <= n - h
                                 THEN <<i - 1 - h, i - 1 + h + 1>> ELSE <<0, 0>>]]

\* What savgol_filter(y=y, window_length=wl, polyorder=po) does, len(y) = n.
savgol_filter(n, wl, po) ==
  LET err == validate(n, wl, po)
      h == wl \div 2
  IN IF err.kind # "passed" THEN err
     ELSE IF ~shape_ATb(wl, po).ok THEN TypeError("jnp.dot(AT, b)")
     ELSE IF ~shape_c(wl, po).ok THEN TypeError("jnp.linalg.solve(ATA, ATb)")
     ELSE IF h < n - h /\ dot(shape_c(wl, po), slice(n, 0, h + h + 1)) # Shape(<< >>)
       THEN TypeError("jnp.dot(c, y[i-window_length//2:i+window_length//2+1])")
     ELSE Returned(smoothed(n, wl))

InitSavgol ==
  /\ y_len \in 0..MaxLen
  /\ window_length \in 0..MaxWindow
  /\ polyorder \in (-1)..MaxPoly
  /\ outcome = None

IdleSavgol == y_len = 0 /\ window_length = 0 /\ polyorder = 0 /\ outcome = None

\* The call savgol_filter(y=y, window_length=window_length, polyorder=polyorder).
Savgol ==
  /\ routine = "savgol_filter"
  /\ pc = "call"
  /\ pc' = "done"
  /\ outcome' = savgol_filter(y_len, window_length, polyorder)
  /\ UNCHANGED <<y_len, window_length, polyorder>>
  /\ UNCHANGED <<routine, bvars, svars, lvars>>

NextSavgol == Savgol

(***************************************************************************)
(*                           lngamma_complex_e                             *)
(***************************************************************************)
MaxRe == 12   \* real(z) ranges over -MaxRe/4 .. MaxRe/4
MaxIm == 2    \* imag(z) ranges over -MaxIm/4 .. MaxIm/4

\* 1.0 and 0.5 in the units of z (quarters).
ZOne == 2 * 2
ZHalf == ZOne \div 2

\* A phase in units of pi; Unmodelled is a phase the model does not compute
\* (z off the real axis, or at a pole).
Phase(k) == [known |-> TRUE, pi |-> k]

Unmodelled == [known |-> FALSE, pi |-> 0]

\* z is a pole of Gamma: a non-positive integer.
Pole(zz) == zz.im = 0 /\ zz.re <= 0 /\ zz.re % ZOne = 0

\* The sign of sin(pi*t) for real t = re/4 (0 at the integers).
SinSign(re) ==
  LET q == re % (2 * ZOne) IN
  IF q \in {1, 2, 3} THEN 1 ELSE IF q \in {5, 6, 7} THEN -1 ELSE 0

\* The signs the zero imaginary part of sin(pi*z) can have for real z = re/4,
\* imag(sin(a + 0i)) = cos(a) * sinh(0): the sign of cos(pi*re/4), which at
\* the half-integers (cos = 0) is decided by rounding.
ZeroSigns(re) ==
  LET q == re % (2 * ZOne) IN
  IF q \in {0, 1, 7} THEN {1} ELSE IF q \in {3, 4, 5} THEN {-1} ELSE {1, -1}

\* imag(jnp.log(jnp.sin(jnp.pi*zz))) for real zz: 0 for a positive sine and
\* atan2(+-0, negative) = +-pi for a negative one.
arg_log_sin(zz, zs) ==
  IF zz.im # 0 \/ SinSign(zz.re) = 0 THEN Unmodelled
  ELSE IF SinSign(zz.re) > 0 THEN Phase(0)
  ELSE IF zs > 0 THEN Phase(1) ELSE Phase(-1)

\* The inner function: where it is evaluated, its shifted argument z - 1.0,
\* and the imaginary part of its value (0 on the real axis from 0.5 on, where
\* z+7.5 and Ag are positive reals).
lngamma_lanczos_complex(zz) ==
  [at |-> zz,
   shifted |-> [re |-> zz.re - ZOne, im |-> zz.im],
   arg |-> IF zz.im = 0 /\ zz.re >= ZHalf THEN Phase(0) ELSE Unmodelled]

\* jnp.real(z) <= 0.5
reflection_below_zero(zz) == zz.re <= 0
reflection(zz) == zz.re <= ZHalf

\* lnpi - log(sin(pi*zz)) - lanczos(1.0 - zz): the imaginary parts subtract,
\* and nothing restricts the difference to (-pi, pi].
reflected_arg(a_sin, a_lanczos) ==
  IF ~a_sin.known \/ ~a_lanczos.known THEN Unmodelled
  ELSE Phase(0 - a_sin.pi - a_lanczos.pi)

\* lngamma_complex_e(zz); zs is the sign of the zero imaginary part of
\* sin(pi*zz) when zz is real.
lngamma_complex_e(zz, zs) ==
  IF reflection(zz)
    THEN LET w == lngamma_lanczos_complex([re |-> ZOne - zz.re, im |-> 0 - zz.im])
         IN [branch |-> "reflection", lanczos |-> w,
             arg |-> reflected_arg(arg_log_sin(zz, zs), w.arg)]
    ELSE LET w == lngamma_lanczos_complex(zz)
         IN [branch |-> "direct", lanczos |-> w, arg |-> w.arg]

InitLngamma ==
  /\ z \in [re : (-MaxRe)..MaxRe, im : (-MaxIm)..MaxIm]
  /\ lngamma = None

IdleLngamma == z = None /\ lngamma = None

\* The call lngamma_complex_e(z).
Lngamma ==
  /\ routine = "lngamma_complex_e"
  /\ pc = "call"
  /\ pc' = "done"
  /\ \E zs \in ZeroSigns(z.re) : lngamma' = lngamma_complex_e(z, zs)
  /\ UNCHANGED z
  /\ UNCHANGED <<routine, bvars, svars, gvars>>

NextLngamma == Lngamma

(***************************************************************************)
(*                            Specifications                               *)
(***************************************************************************)

\* The state before a call of each routine: its arguments are chosen, the
\* variables of the other routines are idle.
BisectCall ==
  /\ routine = "root_find_bisect" /\ pc = "loop"
  /\ InitBisect /\ IdleSoftclip /\ IdleSavgol /\ IdleLngamma

SoftclipCall ==
  /\ routine = "softclip" /\ pc = "call"
  /\ IdleBisect /\ InitSoftclip /\ IdleSavgol /\ IdleLngamma

SavgolCall ==
  /\ routine = "savgol_filter" /\ pc = "call"
  /\ IdleBisect /\ IdleSoftclip /\ InitSavgol /\ IdleLngamma

LngammaCall ==
  /\ routine = "lngamma_complex_e" /\ pc = "call"
  /\ IdleBisect /\ IdleSoftclip /\ IdleSavgol /\ InitLngamma

\* One call of one of the four routines.
Init == BisectCall \/ SoftclipCall \/ SavgolCall \/ LngammaCall

Next == BisectIteration \/ BisectReturn \/ Softclip \/ Savgol \/ Lngamma

Spec == Init /\ [][Next]_vars

SpecBisect == BisectCall /\ [][NextBisect]_vars

SpecSoftclip == SoftclipCall /\ [][NextSoftclip]_vars

SpecSavgol == SavgolCall /\ [][NextSavgol]_vars

SpecLngamma == LngammaCall /\ [][NextLngamma]_vars

(***************************************************************************)
(* Properties of root_find_bisect.                                         *)
(***************************************************************************)

InBisect == routine = "root_find_bisect"

xleft0 == brackets[1][1]
xright0 == brackets[1][2]

\* The caller's precondition: a proper bracket with a sign change (or a zero
\* at an end).
SignChange == xleft0 < xright0 /\ Sign(fvals[xleft0]) * Sign(fvals[xright0]) <= 0

\* C1: the loop runs exactly numit times, also past a midpoint where func is
\* exactly 0; iteration k calls func twice with the caller's param, first at
\* the midpoint of the bracket it started with and then at that bracket's
\* left bound (2*numit calls in all); the value returned is the midpoint of
\* the final bracket, which for numit = 0 is the initial one.
C1_FixedIterationCount ==
  InBisect =>
    /\ it <= numit
    /\ Len(brackets) = it + 1
    /\ Len(calls) = 2 * it
    /\ \A k \in 1..it :
         /\ calls[2 * k - 1][2] = param
         /\ calls[2 * k][2] = param
         /\ 2 * calls[2 * k - 1][1] = brackets[k][1] + brackets[k][2]
         /\ calls[2 * k][1] = brackets[k][1]
    /\ <<xleft, xright>> = brackets[it + 1]
    /\ pc = "done" =>
         /\ it = numit
         /\ Len(calls) = 2 * numit
         /\ 2 * ret = brackets[numit + 1][1] + brackets[numit + 1][2]
         /\ numit = 0 => 2 * ret = xleft0 + xright0

\* A call that returned after three or more iterations although func was
\* exactly 0 at the midpoint of an earlier iteration.
C1_Witness ==
  /\ InBisect /\ pc = "done" /\ numit >= 3
  /\ \E k \in 1..(numit - 1) : fvals[calls[2 * k - 1][1]] = 0

\* sqrt(p) lies within d of r (all three scaled by Unit).
WithinOfSqrt(r, d, p) ==
  /\ r - d <= 0 \/ (r - d) * (r - d) <= p * Unit * Unit
  /\ (r + d) * (r + d) >= p * Unit * Unit

\* C2: under the sign-change precondition the bracket keeps
\* func(xleft)*func(xright) <= 0 after every iteration, and the returned value
\* lies in a bracket of width (xright0 - xleft0)/2^numit inside the initial
\* one whose ends carry a zero or a sign change of func; for
\* func(x, p) = x^2 - p on [0, 2] the result is within 2/2^numit of sqrt(p).
C2_BracketKeepsSignChange ==
  (InBisect /\ SignChange) =>
    /\ Sign(fvals[xleft]) * Sign(fvals[xright]) <= 0
    /\ pc = "done" =>
         /\ xleft0 <= xleft /\ xleft <= ret /\ ret <= xright /\ xright <= xright0
         /\ (xright - xleft) * Pow2(numit) = xright0 - xleft0
         /\ Abs(ret - xleft) * Pow2(numit) <= xright0 - xleft0
         /\ (func = "quadratic" /\ xleft0 = 0 /\ xright0 = 2 * Unit) =>
              WithinOfSqrt(ret, (2 * Unit) \div Pow2(numit), param)

\* x^2 - 2 on [0, 2], returned after three or more iterations.
C2_Witness ==
  /\ InBisect /\ pc = "done" /\ numit >= 3 /\ SignChange
  /\ func = "quadratic" /\ param = 2 /\ xleft0 = 0 /\ xright0 = 2 * Unit

\* C3: whatever func is, the width of the bracket after k iterations is
\* (xright0 - xleft0) / 2^k.
C3_WidthHalves ==
  InBisect =>
    /\ \A k \in 1..Len(brackets) :
         (brackets[k][2] - brackets[k][1]) * Pow2(k - 1) = xright0 - xleft0
    /\ pc = "done" => (xright - xleft) * Pow2(numit) = xright0 - xleft0

\* A call that returned after three or more iterations on a bracket whose
\* ends have the same sign of func.
C3_Witness ==
  /\ InBisect /\ pc = "done" /\ numit >= 3
  /\ xleft0 # xright0
  /\ Sign(fvals[xleft0]) * Sign(fvals[xright0]) > 0

\* C9 as stated: from xleft0 <= xright0, every iteration keeps
\* xleft <= xright, changes exactly one of the two bounds, to the midpoint,
\* and nests the bracket in the previous one; the result is in
\* [xleft0, xright0].
C9_ExactlyOneBoundChanges ==
  (InBisect /\ xleft0 <= xright0) =>
    /\ \A k \in 1..it :
         LET old == brackets[k]
             new == brackets[k + 1]
             mid == (old[1] + old[2]) \div 2
         IN /\ new[1] <= new[2]
            /\ old[1] <= new[1] /\ new[2] <= old[2]
            /\ \/ new[1] # old[1] /\ new[1] = mid /\ new[2] = old[2]
               \/ new[2] # old[2] /\ new[2] = mid /\ new[1] = old[1]
    /\ pc = "done" => (xleft0 <= ret /\ ret <= xright0)

\* C9 as amended: from xleft0 <= xright0, every iteration keeps
\* xleft <= xright, sets one bound to the midpoint and keeps the other, and
\* nests the bracket in the previous one; exactly one bound changes when the
\* bracket has xleft < xright and none when xleft = xright; the result is in
\* [xleft0, xright0].
C9_OneBoundSetToMidpoint ==
  (InBisect /\ xleft0 <= xright0) =>
    /\ \A k \in 1..it :
         LET old == brackets[k]
             new == brackets[k + 1]
             mid == (old[1] + old[2]) \div 2
         IN /\ new[1] <= new[2]
            /\ old[1] <= new[1] /\ new[2] <= old[2]
            /\ \/ new[1] = mid /\ new[2] = old[2]
               \/ new[2] = mid /\ new[1] = old[1]
            /\ old[1] < old[2] => ((new[1] # old[1]) # (new[2] # old[2]))
            /\ old[1] = old[2] => new = old
    /\ pc = "done" => (xleft0 <= ret /\ ret <= xright0)

\* A call on a proper bracket that moved its left bound in one iteration and
\* its right bound in another.
C9_Witness ==
  /\ InBisect /\ pc = "done" /\ numit >= 3 /\ xleft0 < xright0
  /\ xleft > xleft0 /\ xright < xright0

(***************************************************************************)
(* Properties of softclip.                                                 *)
(***************************************************************************)

SoftclipReturned == routine = "softclip" /\ pc = "done"

\* C7: for a_min < a_max, softclip is non-decreasing in x, is x itself on
\* [a_min, a_max], and is strictly increasing below a_min and above a_max,
\* also across a_min and a_max: of two elements of x the smaller one gets the
\* strictly smaller value.
C7_StrictlyIncreasing ==
  (SoftclipReturned /\ a_min < a_max) =>
    \A j, k \in DOMAIN x :
      /\ x[j] <= x[k] => clipped[j] <= clipped[k]
      /\ x[j] < x[k] => clipped[j] < clipped[k]
      /\ (a_min <= x[j] /\ x[j] <= a_max) => clipped[j] = x[j]

\* A call with one element below a_min and one above a_max.
C7_Witness ==
  /\ SoftclipReturned /\ a_min < a_max
  /\ x[1] < a_min /\ x[2] > a_max
  /\ clipped[1] < clipped[2]

\* C8 as stated: softclip is bounded and tends to a_min at -infinity and to
\* a_max at +infinity.  softclip is non-decreasing (C7), so these limits are
\* its infimum and supremum: every value lies in [a_min, a_max].
C8_BoundedByClampRange ==
  (SoftclipReturned /\ a_min < a_max) =>
    \A j \in DOMAIN x : a_min <= clipped[j] /\ clipped[j] <= a_max

\* C8 as amended: softclip is unbounded.  Below a_min it is
\* a_min - ln(1 + (a_min - x)) < a_min and above a_max it is
\* a_max + ln(1 + (x - a_max)) > a_max, so it is at least k*ln(2) away from
\* the bound as soon as x is 2^k - 1 away from it, for every k.
C8_LogarithmicDivergence ==
  (SoftclipReturned /\ a_min < a_max) =>
    \A j \in DOMAIN x :
      /\ x[j] < a_min =>
           /\ clipped[j] < a_min
           /\ \A k \in 0..FracBits :
                a_min - x[j] >= (Pow2(k) - 1) * One => a_min - clipped[j] >= k * Ln2
      /\ x[j] > a_max =>
           /\ clipped[j] > a_max
           /\ \A k \in 0..FracBits :
                x[j] - a_max >= (Pow2(k) - 1) * One => clipped[j] - a_max >= k * Ln2

\* An element 7 or more below a_min whose value is more than 2 below a_min,
\* and one 7 or more above a_max whose value is more than 2 above a_max.
C8_Witness ==
  /\ SoftclipReturned /\ a_min < a_max
  /\ a_min - x[1] >= 7 * One /\ a_min - clipped[1] > 2 * One
  /\ x[2] - a_max >= 7 * One /\ clipped[2] - a_max > 2 * One

(***************************************************************************)
(* Properties of savgol_filter.                                            *)
(***************************************************************************)

SavgolEnded == routine = "savgol_filter" /\ pc = "done"

\* The documented preconditions: all five checks pass.
Valid(n, wl, po) == wl % 2 = 1 /\ wl >= po + 2 /\ wl <= n /\ po <= wl /\ po >= 1

\* Precondition k of the five is violated.
Violated(k, n, wl, po) ==
  IF k = 1 THEN wl % 2 = 0
  ELSE IF k = 2 THEN wl < po + 2
  ELSE IF k = 3 THEN wl > n
  ELSE IF k = 4 THEN po > wl
  ELSE po < 1

\* The failure that belongs to precondition k.
Failure(k) ==
  IF k = 1 THEN "window_length must be odd"
  ELSE IF k = 2 THEN "window_length is too small for the polynomials order"
  ELSE IF k = 3 THEN "window_length is too large for input array"
  ELSE IF k = 4 THEN "polyorder is too large for the window length"
  ELSE "polyorder must be non-negative"

\* C5: arguments that violate a precondition end in a ValueError before any
\* computation, and each of the five preconditions has arguments violating it
\* for which the failure raised is its own; window_length=4 raises 'must be
\* odd', polyorder=5 with window_length=5 raises 'too small'.
C5_EachPreconditionOwnFailure ==
  SavgolEnded =>
    /\ ~Valid(y_len, window_length, polyorder) => outcome.kind = "ValueError"
    /\ savgol_filter(MaxLen, 4, 1).what = Failure(1)
    /\ savgol_filter(MaxLen, 5, 5).what = Failure(2)
    /\ \A k \in 1..5 :
         \E n \in 0..MaxLen, wl \in 0..MaxWindow, po \in (-1)..MaxPoly :
           /\ Violated(k, n, wl, po)
           /\ savgol_filter(n, wl, po).kind = "ValueError"
           /\ savgol_filter(n, wl, po).what = Failure(k)

\* C6: a call whose arguments pass validation returns an array as long as y
\* whose first and last window_length//2 entries are the zero fill value and
\* whose entry i otherwise is dot(c, y[i-h : i+h+1]), h = window_length//2.
C6_ValidCallReturnsSmoothed ==
  (SavgolEnded /\ Valid(y_len, window_length, polyorder)) =>
    /\ outcome.kind = "returned"
    /\ LET h == window_length \div 2
           ys == outcome.y_smoothed
       IN /\ DOMAIN ys.fill = 1..y_len
          /\ \A i \in 1..y_len :
               /\ (i <= h \/ i > y_len - h) => ys.fill[i]
               /\ (h < i /\ i <= y_len - h) =>
                    (~ys.fill[i] /\ ys.windows[i] = <<i - 1 - h, i + h>>)

(***************************************************************************)
(* Properties of lngamma_complex_e.                                        *)
(***************************************************************************)

LngammaReturned == routine = "lngamma_complex_e" /\ pc = "done"

\* C4: for z not a non-positive integer the imaginary part of the result is
\* arg(Gamma(z)) in (-pi, pi]; for real negative non-integer z it is 0 or
\* +pi, never -pi.
C4_ArgInHalfOpenInterval ==
  (LngammaReturned /\ ~Pole(z) /\ lngamma.arg.known) =>
    (-1 < lngamma.arg.pi /\ lngamma.arg.pi <= 1)

\* C10: the result is the reflection formula, with the Lanczos core at 1 - z,
\* exactly when real(z) <= 0.5, and the Lanczos core at z exactly when
\* real(z) > 0.5; either way the core is evaluated at real part >= 0.5.
C10_StrictBranch ==
  LngammaReturned =>
    /\ lngamma.branch = "reflection" <=> z.re <= ZHalf
    /\ lngamma.branch = "direct" <=> z.re > ZHalf
    /\ lngamma.branch = "reflection" =>
         lngamma.lanczos.at = [re |-> ZOne - z.re, im |-> 0 - z.im]
    /\ lngamma.branch = "direct" => lngamma.lanczos.at = z
    /\ lngamma.lanczos.at.re >= ZHalf

\* A call at real(z) = 0.5 exactly, off the real axis, which reflected.
C10_Witness ==
  /\ LngammaReturned /\ z.re = ZHalf /\ z.im # 0
  /\ lngamma.branch = "reflection" /\ lngamma.lanczos.at.re = ZHalf

====
